---- MODULE Spec2Model ----
(***************************************************************************)
(* RegressionModel (src/Lesson.ipynb, cell "#si-exercise"): one object     *)
(* holding a design matrix and a response, an OLS estimator, a logit       *)
(* estimator driven by scipy.optimize.minimize, and a summary printer.     *)
(*                                                                         *)
(* numpy float64 values are modelled as fixed-point integers (hundredths)  *)
(* with the three IEEE special values inf, -inf and nan.  pandas objects   *)
(* are modelled by what the code reads of them: a DataFrame is its column  *)
(* labels, its row labels and its cells; a dict is its keys in insertion   *)
(* order and its values.                                                   *)
(***************************************************************************)
EXTENDS Integers, Sequences, FiniteSets, TLC

VARIABLES args, phase, self, raised, lastCall, ran, ncalls, writer, out, firstFit, trial

vars == <<args, phase, self, raised, lastCall, ran, ncalls, writer, out, firstFit, trial>>

(***************************************************************************)
(* Bounds of the model.                                                    *)
(***************************************************************************)
MaxRows == 3      \* the input table has 2..MaxRows rows
MaxOffset == 1    \* the input's row labels are off..off+n-1, off in 0..MaxOffset
MaxCalls == 3     \* method calls made on one constructed object
MaxIter == 3      \* iteration budget of the minimizer

(***************************************************************************)
(* float64: fixed point with Scale units per 1.0, finite up to MaxFloat,   *)
(* then the special values.                                                *)
(***************************************************************************)
Scale == 100
MaxFloat == 40000
PInf == MaxFloat + 1
NInf == 0 - PInf
NaN == MaxFloat + 2

IsFinite(a) == a >= 0 - MaxFloat /\ a <= MaxFloat

Abs(a) == IF a < 0 THEN 0 - a ELSE a

Sgn(a) == IF a < 0 THEN 0 - 1 ELSE IF a > 0 THEN 1 ELSE 0

\* integer division truncating toward zero (b # 0)
TruncDiv(a, b) == Sgn(a) * Sgn(b) * (Abs(a) \div Abs(b))

Overflow(v) == IF v > MaxFloat THEN PInf ELSE IF v < 0 - MaxFloat THEN NInf ELSE v

FNeg(a) == IF a = NaN THEN NaN ELSE 0 - a

FAdd(a, b) ==
  IF a = NaN \/ b = NaN THEN NaN
  ELSE IF a = PInf THEN (IF b = NInf THEN NaN ELSE PInf)
  ELSE IF a = NInf THEN (IF b = PInf THEN NaN ELSE NInf)
  ELSE IF b = PInf \/ b = NInf THEN b
  ELSE Overflow(a + b)

FSub(a, b) == FAdd(a, FNeg(b))

FMul(a, b) ==
  IF a = NaN \/ b = NaN THEN NaN
  ELSE IF ~IsFinite(a) \/ ~IsFinite(b)
       THEN (IF a = 0 \/ b = 0 THEN NaN
             ELSE IF Sgn(a) * Sgn(b) > 0 THEN PInf ELSE NInf)
  ELSE Overflow(TruncDiv(a * b, Scale))

\* numpy true division: x/0 is +-inf, 0/0 is nan, never an exception
FDiv(a, b) ==
  IF a = NaN \/ b = NaN THEN NaN
  ELSE IF ~IsFinite(a)
       THEN (IF ~IsFinite(b) THEN NaN
             ELSE IF Sgn(a) * (IF b < 0 THEN 0 - 1 ELSE 1) > 0 THEN PInf ELSE NInf)
  ELSE IF ~IsFinite(b) THEN 0
  ELSE IF b = 0 THEN (IF a = 0 THEN NaN ELSE IF a > 0 THEN PInf ELSE NInf)
  ELSE Overflow(TruncDiv(a * Scale, b))

RECURSIVE ISqrt(_, _, _)
\* the largest r in lo..hi with r*r <= w
ISqrt(w, lo, hi) ==
  IF lo >= hi THEN lo
  ELSE LET mid == (lo + hi + 1) \div 2
       IN IF mid * mid <= w THEN ISqrt(w, mid, hi) ELSE ISqrt(w, lo, mid - 1)

\* np.sqrt: nan for a negative argument (a warning, no exception)
FSqrt(a) ==
  IF a = NaN \/ a < 0 THEN NaN
  ELSE IF a = PInf THEN PInf
  ELSE ISqrt(a * Scale, 0, 2 * Scale * 10)

\* np.abs
FAbs(a) == IF a = NaN THEN NaN ELSE Abs(a)

(***************************************************************************)
(* Vectors and matrices (ndarray): sequences and sequences of rows.        *)
(***************************************************************************)
RECURSIVE FSum(_)
FSum(v) == IF v = <<>> THEN 0 ELSE FAdd(FSum(SubSeq(v, 1, Len(v) - 1)), v[Len(v)])

NCols(M) == IF M = <<>> THEN 0 ELSE Len(M[1])

Column(M, j) == [i \in 1..Len(M) |-> M[i][j]]

Transpose(M) == [j \in 1..NCols(M) |-> Column(M, j)]

Dot(u, v) == FSum([i \in 1..Len(u) |-> FMul(u[i], v[i])])

\* A @ B for conforming shapes
MatMul(A, B) == [i \in 1..Len(A) |-> [j \in 1..NCols(B) |-> Dot(A[i], Column(B, j))]]

\* A @ v, v one-dimensional
MatVec(A, v) == [i \in 1..Len(A) |-> Dot(A[i], v)]

Diag(M) == [i \in 1..Len(M) |-> M[i][i]]

AnyNonFinite(M) == \E i \in 1..Len(M) : \E j \in 1..Len(M[i]) : ~IsFinite(M[i][j])

Drop(s, j) == [i \in 1..(Len(s) - 1) |-> IF i < j THEN s[i] ELSE s[i + 1]]

Minor(N, i, j) == [r \in 1..(Len(N) - 1) |-> Drop(Drop(N, i)[r], j)]

RECURSIVE IntSum(_)
IntSum(v) == IF v = <<>> THEN 0 ELSE IntSum(SubSeq(v, 1, Len(v) - 1)) + v[Len(v)]

RECURSIVE Det(_)
\* determinant of an integer matrix, by expansion along the first row
Det(N) ==
  IF Len(N) = 0 THEN 1
  ELSE IF Len(N) = 1 THEN N[1][1]
  ELSE IntSum([j \in 1..Len(N) |->
                 (IF j % 2 = 1 THEN 1 ELSE 0 - 1) * N[1][j] * Det(Minor(N, 1, j))])

Cofactor(N, i, j) == (IF (i + j) % 2 = 0 THEN 1 ELSE 0 - 1) * Det(Minor(N, i, j))

\* the cells of the model's tables are whole numbers, so are their cross products
Whole(M) == [i \in 1..Len(M) |-> [j \in 1..Len(M[i]) |-> TruncDiv(M[i][j], Scale)]]

\* np.linalg.inv accepts a singular matrix and returns its "inverse" (a bug variant)
inver_no_check(mat) ==
  LET N == Whole(mat)
      d == Det(N)
  IN [exc |-> "none",
      val |-> [i \in 1..Len(mat) |-> [j \in 1..Len(mat) |->
                 IF AnyNonFinite(mat) THEN NaN
                 ELSE FDiv(Cofactor(N, j, i) * Scale, d * Scale)]]]

(***************************************************************************)
(* inver / np.linalg.inv: LinAlgError("Singular matrix") on a singular     *)
(* matrix, the inverse otherwise; a matrix holding nan comes back all nan. *)
(* The result is a record: exc (the exception raised, or "none"), val.     *)
(***************************************************************************)
inver(mat) ==
  LET N == Whole(mat)
      d == Det(N)
  IN IF AnyNonFinite(mat)
     THEN [exc |-> "none", val |-> [i \in 1..Len(mat) |-> [j \in 1..Len(mat) |-> NaN]]]
     ELSE IF d = 0
     THEN [exc |-> "LinAlgError", val |-> <<>>]
     ELSE [exc |-> "none",
           val |-> [i \in 1..Len(mat) |-> [j \in 1..Len(mat) |->
                      Overflow(TruncDiv(Cofactor(N, j, i) * Scale, d))]]]

(***************************************************************************)
(* scipy.stats survival functions.  SfBreaks(d)[p] is the least t > 0 (in  *)
(* hundredths) whose upper tail is below (51 - p)/100; d = 0 names the     *)
(* standard normal, d = 1..4 Student's t with d degrees of freedom.        *)
(***************************************************************************)
SfBreaks(d) ==
  CASE d = 0 -> <<1, 3, 6, 8, 11, 13, 16, 18, 21, 23, 26, 28, 31, 34, 36, 39, 42, 44, 47,
                  50, 53, 56, 59, 62, 65, 68, 71, 74, 78, 81, 85, 88, 92, 96, 100, 104,
                  109, 113, 118, 123, 129, 135, 141, 148, 156, 165, 176, 189, 206, 233>>
    [] d = 1 -> <<1, 4, 7, 10, 13, 16, 20, 23, 26, 30, 33, 37, 40, 44, 48, 51, 55, 60, 64,
                  68, 73, 78, 83, 89, 94, 101, 107, 114, 121, 129, 138, 148, 158, 170, 182,
                  197, 213, 232, 253, 278, 308, 345, 390, 448, 525, 632, 792, 1058, 1590,
                  3183>>
    [] d = 2 -> <<1, 3, 6, 9, 12, 15, 18, 20, 23, 26, 29, 32, 35, 39, 42, 45, 48, 52, 55,
                  59, 62, 66, 70, 74, 78, 82, 87, 91, 96, 101, 107, 112, 118, 125, 132, 139,
                  147, 156, 166, 177, 189, 203, 219, 239, 263, 292, 332, 390, 485, 697>>
    [] d = 3 -> <<1, 3, 6, 9, 11, 14, 17, 20, 22, 25, 28, 31, 34, 37, 40, 43, 46, 49, 52,
                  56, 59, 62, 66, 69, 73, 77, 81, 85, 89, 94, 98, 103, 108, 114, 119, 125,
                  132, 139, 147, 155, 164, 175, 186, 200, 216, 236, 261, 296, 349, 455>>
    [] OTHER -> <<1, 3, 6, 9, 11, 14, 17, 19, 22, 25, 28, 30, 33, 36, 39, 42, 45, 48, 51,
                  54, 57, 61, 64, 67, 71, 75, 78, 82, 86, 90, 95, 99, 104, 109, 114, 119,
                  125, 132, 138, 146, 154, 163, 173, 184, 198, 214, 234, 261, 300, 375>>

\* upper tail at a finite t >= 0
UpperTail(t, d) ==
  (Scale \div 2) - Cardinality({p \in 1..Len(SfBreaks(d)) : SfBreaks(d)[p] <= t})

\* the survival function of distribution d at any float
Sf(t, d) ==
  IF t = NaN THEN NaN
  ELSE IF t = PInf THEN 0
  ELSE IF t = NInf THEN Scale
  ELSE IF t >= 0 THEN UpperTail(t, d)
  ELSE Scale - UpperTail(0 - t, d)

\* scipy.stats.t.sf (t, df): nan when df is not positive
t_sf(t, df) == IF df <= 0 THEN NaN ELSE Sf(t, IF df > 4 THEN 4 ELSE df)

\* scipy.stats.norm.sf
norm_sf(z) == Sf(z, 0)

(***************************************************************************)
(* np.exp and np.log as the likelihood uses them.  LogOnePlusExpNeg[a] is  *)
(* log(1 + exp(-a/10)) in hundredths; it is 0 from a = 5.3 on.             *)
(***************************************************************************)
LogOnePlusExpNeg ==
  <<69, 64, 60, 55, 51, 47, 44, 40, 37, 34, 31, 29, 26, 24, 22, 20, 18, 17, 15, 14, 13,
    12, 11, 10, 9, 8, 7, 7, 6, 5, 5, 4, 4, 4, 3, 3, 3, 2, 2, 2, 2, 2, 1, 1, 1, 1, 1, 1, 1,
    1, 1, 1, 1>>

\* log(1 + exp(e)) for a finite e
Softplus(e) ==
  LET a == Abs(e) \div (Scale \div 10)
      tail == IF a + 1 <= Len(LogOnePlusExpNeg) THEN LogOnePlusExpNeg[a + 1] ELSE 0
  IN IF e >= 0 THEN e + tail ELSE tail

\* from this linear predictor on, 1 + exp(e) = exp(e) in float64 and gamma is 1.0
GammaOne == 3700

\* np.log(gamma), gamma = np.exp(e) / (1 + np.exp(e))
LogGamma(e) ==
  IF e = NaN \/ e = PInf THEN NaN          \* exp overflows: inf/inf
  ELSE IF e = NInf THEN NInf               \* gamma = 0.0: log(0)
  ELSE IF e >= GammaOne THEN 0
  ELSE 0 - Softplus(0 - e)

\* np.log(1 - gamma)
LogOneMinusGamma(e) ==
  IF e = NaN \/ e = PInf THEN NaN
  ELSE IF e = NInf THEN 0
  ELSE IF e >= GammaOne THEN NInf          \* 1 - gamma = 0.0: log(0)
  ELSE 0 - Softplus(e)

Min(a, b) == IF a < b THEN a ELSE b

(***************************************************************************)
(* loglike(b, y, x), the objective handed to the minimizer: x and y are    *)
(* DataFrames, zip stops at the shorter of y's cells and gamma.            *)
(***************************************************************************)
loglike(b, y, x) ==
  LET eta == MatVec(x.data, b)
      yr == [i \in 1..Len(y.data) |-> y.data[i][1]]
      term(i) == FAdd(FMul(yr[i], LogGamma(eta[i])),
                      FMul(FSub(Scale, yr[i]), LogOneMinusGamma(eta[i])))
  IN FNeg(FSum([i \in 1..Min(Len(yr), Len(eta)) |-> term(i)]))

(***************************************************************************)
(* scipy.optimize.minimize(loglike, b, args=(y, x)), an external routine,  *)
(* modelled by its contract: a deterministic descent from the initial      *)
(* point that never moves uphill, stops where no step improves (success)   *)
(* or when its iteration budget is spent (no success), and gives back the  *)
(* initial point, without success, when the objective there is nan.  The   *)
(* steps are +-GridStep in one coordinate, the first best one taken.       *)
(***************************************************************************)
GridStep == Scale \div 10

Neighbour(b, m) ==
  [j \in 1..Len(b) |->
     IF j = (m + 1) \div 2
     THEN FAdd(b[j], IF m % 2 = 1 THEN GridStep ELSE 0 - GridStep)
     ELSE b[j]]

BestMove(b, y, x) ==
  LET f(m) == loglike(Neighbour(b, m), y, x)
      M == 1..(2 * Len(b))
  IN CHOOSE m \in M : \A m2 \in M : f(m) < f(m2) \/ (f(m) = f(m2) /\ m <= m2)

RECURSIVE Descend(_, _, _, _)
Descend(b, y, x, it) ==
  LET f0 == loglike(b, y, x)
      nb == Neighbour(b, BestMove(b, y, x))
  IN IF f0 = NaN THEN [x |-> b, success |-> FALSE]
     ELSE IF ~(loglike(nb, y, x) < f0) THEN [x |-> b, success |-> TRUE]
     ELSE IF it >= MaxIter THEN [x |-> b, success |-> FALSE]
     ELSE Descend(nb, y, x, it + 1)

minimize(b, y, x) == Descend(b, y, x, 0)

(***************************************************************************)
(* pandas objects.                                                         *)
(***************************************************************************)
\* a DataFrame: column labels, row labels, cells by row
Frame(columns, index, data) == [columns |-> columns, index |-> index, data |-> data]

EmptyFrame == Frame(<<>>, <<>>, <<>>)

RangeIndex(n) == [i \in 1..n |-> i - 1]

Range(s) == {s[i] : i \in 1..Len(s)}

IndexOf(s, e) == CHOOSE i \in 1..Len(s) : s[i] = e

RECURSIVE Without(_, _)
\* the elements of s that are not in S, in s's order
Without(s, S) ==
  IF s = <<>> THEN <<>>
  ELSE LET rest == Without(SubSeq(s, 1, Len(s) - 1), S)
       IN IF s[Len(s)] \in S THEN rest ELSE Append(rest, s[Len(s)])

\* pd.concat([a, b], axis=1): the rows are matched by label, over the union of the
\* two indexes (a's labels first, then b's new ones); a cell with no row is nan
concat_axis1(a, b) ==
  LET index == IF a.index = b.index THEN a.index
               ELSE a.index \o Without(b.index, Range(a.index))
      cells(f, l) == IF l \in Range(f.index) THEN f.data[IndexOf(f.index, l)]
                     ELSE [j \in 1..Len(f.columns) |-> NaN]
  IN Frame(a.columns \o b.columns, index,
           [i \in 1..Len(index) |-> cells(a, index[i]) \o cells(b, index[i])])

reset_index(f) == Frame(f.columns, RangeIndex(Len(f.index)), f.data)

\* a dict: keys in insertion order, a later value replacing an earlier one
EmptyDict == [keys |-> <<>>, val |-> <<>>]

DictSet(d, k, v) ==
  IF k \in Range(d.keys)
  THEN [d EXCEPT !.val[IndexOf(d.keys, k)] = v]
  ELSE [keys |-> Append(d.keys, k), val |-> Append(d.val, v)]

DictGet(d, k) == d.val[IndexOf(d.keys, k)]

(***************************************************************************)
(* The object.  attrs is the set of attributes assigned so far (reading    *)
(* any other raises AttributeError); the other fields are their values.    *)
(***************************************************************************)
NoSelf ==
  [attrs |-> {}, x |-> EmptyFrame, y |-> EmptyFrame, y2 |-> EmptyFrame,
   num_obs |-> 0, num_vars |-> 0, regression_type |-> "", x_list |-> <<>>,
   y_label |-> "", x1 |-> <<>>, y1 |-> <<>>, Beta_hat_M |-> <<>>, Beta_hat |-> <<>>,
   df |-> 0, stdError |-> <<>>, t_stat |-> <<>>, zScores |-> <<>>, p_val |-> <<>>,
   results |-> EmptyDict]

\* what a method call has done so far: the object, the exception raised ("none"
\* while running), the attributes it assigned, the estimators it entered, and
\* what it printed
NoTable == [columns |-> <<>>, data |-> <<>>]

Enter(s) == [s |-> s, exc |-> "none", wrote |-> {}, ran |-> <<>>, out |-> NoTable]

SetAttr(c, name, v) ==
  [c EXCEPT !.s = [c.s EXCEPT ![name] = v, !.attrs = @ \cup {name}],
            !.wrote = @ \cup {name}]

Raise(c, e) == [c EXCEPT !.exc = e]

\* the next statement runs only if nothing was raised before it
Then(c, F(_)) == IF c.exc = "none" THEN F(c) ELSE c

Has(c, names) == names \subseteq c.s.attrs

(***************************************************************************)
(* __init__ and add_intercept.                                             *)
(***************************************************************************)
\* an invalid regression_type silently becomes "ols" (a bug variant)
check_regression_type_default(c, regression_type) ==
  IF regression_type.isstr /\ regression_type.v \in {"ols", "logit"}
  THEN SetAttr(c, "regression_type", regression_type.v)
  ELSE SetAttr(c, "regression_type", "ols")

\* the if/else on regression_type in __init__
check_regression_type(c, regression_type) ==
  IF regression_type.isstr /\ regression_type.v \in {"ols", "logit"}
  THEN SetAttr(c, "regression_type", regression_type.v)
  ELSE Raise(c, "RuntimeError")

add_intercept(c, create_intercept) ==
  IF create_intercept
  THEN LET n == c.s.num_obs
           all_1 == Frame(<<"intercept">>, RangeIndex(n), [i \in 1..n |-> <<Scale>>])
           c1 == SetAttr(c, "x_list", Append(c.s.x_list, "intercept"))
           c2 == SetAttr(c1, "x", reset_index(concat_axis1(c1.s.x, all_1)))
       IN SetAttr(c2, "num_vars", Len(c2.s.x.columns))
  ELSE c

(***************************************************************************)
(* The OLS steps.                                                          *)
(***************************************************************************)
\* a matrix product of shapes that do not conform raises ValueError
Conform(A, B) == NCols(A) = Len(B)

BetaHat(c) ==
  LET x1 == c.s.x1
      y1 == c.s.y1
      xt_x == MatMul(Transpose(x1), x1)
      inv == inver(xt_x)
      Beta_hat_M == MatMul(inv.val, MatMul(Transpose(x1), y1))
  IN IF ~Conform(Transpose(x1), y1) THEN Raise(c, "ValueError")
     ELSE IF inv.exc # "none" THEN Raise(c, inv.exc)
     ELSE SetAttr(SetAttr(c, "Beta_hat_M", Beta_hat_M),
                  "Beta_hat", Transpose(Beta_hat_M)[1])

\* chat2 assigns self.df and returns the residual variance: [c, val]
chat2(c) ==
  LET x1 == c.s.x1
      y1 == c.s.y1
      df == Len(x1) - NCols(x1)
      c1 == SetAttr(c, "df", df)
      fitted == MatMul(x1, c.s.Beta_hat_M)
      e == [i \in 1..Len(y1) |-> <<FSub(y1[i][1], fitted[i][1])>>]
      rss == MatMul(Transpose(e), e)
  IN IF ~Has(c1, {"Beta_hat_M"}) THEN [c |-> Raise(c1, "AttributeError"), val |-> NaN]
     ELSE IF ~Conform(x1, c.s.Beta_hat_M) \/ Len(fitted) # Len(y1)
     THEN [c |-> Raise(c1, "ValueError"), val |-> NaN]
     ELSE [c |-> c1, val |-> FDiv(rss[1][1], df * Scale)]

\* returns the diagonal of chat2 * (x'x)^-1: [c, val]
varianceOfBeta_hat(c) ==
  LET r == chat2(c)
      inv == inver(MatMul(Transpose(c.s.x1), c.s.x1))
  IN IF r.c.exc # "none" THEN [c |-> r.c, val |-> <<>>]
     ELSE IF inv.exc # "none" THEN [c |-> Raise(r.c, inv.exc), val |-> <<>>]
     ELSE [c |-> r.c, val |-> [i \in 1..Len(inv.val) |-> FMul(r.val, inv.val[i][i])]]

std_error(c) ==
  LET r == varianceOfBeta_hat(c)
  IN IF r.c.exc # "none" THEN r.c
     ELSE SetAttr(r.c, "stdError", [i \in 1..Len(r.val) |-> FSqrt(r.val[i])])

t_statistic(c) ==
  IF ~Has(c, {"Beta_hat", "stdError"}) THEN Raise(c, "AttributeError")
  ELSE SetAttr(c, "t_stat",
               [i \in 1..Min(Len(c.s.Beta_hat), Len(c.s.stdError)) |->
                  FDiv(c.s.Beta_hat[i], c.s.stdError[i])])

\* the p-value is two-sided, twice the upper tail at |t| (a bug variant)
p_value_two_sided(c) ==
  IF ~Has(c, {"t_stat", "df"}) THEN Raise(c, "AttributeError")
  ELSE SetAttr(c, "p_val",
               [i \in 1..Len(c.s.t_stat) |->
                  FMul(t_sf(FAbs(c.s.t_stat[i]), c.s.df), 2 * Scale)])

p_value(c) ==
  IF ~Has(c, {"t_stat", "df"}) THEN Raise(c, "AttributeError")
  ELSE SetAttr(c, "p_val", [i \in 1..Len(c.s.t_stat) |-> t_sf(c.s.t_stat[i], c.s.df)])

RECURSIVE DictOf(_, _)
\* the dict whose i-th insertion is keys[i]: vals[i]
DictOf(keys, vals) ==
  IF keys = <<>> THEN EmptyDict
  ELSE DictSet(DictOf(SubSeq(keys, 1, Len(keys) - 1), vals), keys[Len(keys)], vals[Len(keys)])

SameLength(cols) == \A i, j \in 1..Len(cols) : Len(cols[i]) = Len(cols[j])

\* each record takes its four values from the next index (a bug variant)
resultToDict_shifted(c) ==
  LET k == Len(c.s.x_list)
      nx(i) == (i % k) + 1
  IN SetAttr(c, "results",
             DictOf(c.s.x_list,
                    [i \in 1..k |->
                       [coefficient |-> c.s.Beta_hat[nx(i)],
                        standard_error |-> c.s.stdError[nx(i)],
                        t_stat |-> c.s.t_stat[nx(i)],
                        p_value |-> c.s.p_val[nx(i)]]]))

resultToDict(c) ==
  IF ~Has(c, {"x_list", "Beta_hat", "stdError", "t_stat", "p_val"})
  THEN Raise(c, "AttributeError")
  ELSE IF ~SameLength(<<c.s.x_list, c.s.Beta_hat, c.s.stdError, c.s.t_stat, c.s.p_val>>)
  THEN Raise(c, "ValueError")
  ELSE SetAttr(c, "results",
               DictOf(c.s.x_list,
                      [i \in 1..Len(c.s.x_list) |->
                         [coefficient |-> c.s.Beta_hat[i],
                          standard_error |-> c.s.stdError[i],
                          t_stat |-> c.s.t_stat[i],
                          p_value |-> c.s.p_val[i]]]))

Entered(c, estimator) == [c EXCEPT !.ran = Append(@, estimator)]

variance_discarded(c) == varianceOfBeta_hat(c).c

ols_regression(c) ==
  Then(Then(Then(Then(Then(BetaHat(Entered(c, "ols")), variance_discarded),
                      std_error), t_statistic), p_value), resultToDict)

(***************************************************************************)
(* logistic_regression.                                                    *)
(***************************************************************************)
\* np.mean of a DataFrame's cells
Mean(f) == FDiv(FSum([i \in 1..Len(f.data) |-> FSum(f.data[i])]),
                Len(f.data) * NCols(f.data) * Scale)

\* the initial point of the search, np.full(num_vars, 0.1)
InitialGuess(num_vars) == [j \in 1..num_vars |-> Scale \div 10]

\* the search starts from the coefficients of the previous fit (a bug variant)
StartingPoint_warm(c) ==
  IF Has(c, {"Beta_hat"}) /\ Len(c.s.Beta_hat) = c.s.num_vars
  THEN c.s.Beta_hat
  ELSE InitialGuess(c.s.num_vars)

StartingPoint(c) == InitialGuess(c.s.num_vars)

\* betas = minimize(loglike, b, args=(y, x)).x ; self.Beta_hat = betas
logit_betas(c) ==
  SetAttr(c, "Beta_hat", minimize(StartingPoint(c), c.s.y2, c.s.x).x)

\* stdError, zScores and p_val, from shat2 and the inverse of x'x
logit_inference(c) ==
  LET betas == c.s.Beta_hat
      y == c.s.y2
      x == c.s.x
      shat2 == FMul(FMul(c.s.num_obs * Scale, Mean(y)), FSub(Scale, Mean(y)))
      inv == inver(MatMul(Transpose(x.data), x.data))
      stdError == [i \in 1..Len(inv.val) |-> FSqrt(FMul(shat2, inv.val[i][i]))]
      zScores == [i \in 1..Len(betas) |-> FDiv(betas[i], stdError[i])]
      p_val == [i \in 1..Len(zScores) |-> FMul(norm_sf(FAbs(zScores[i])), 2 * Scale)]
  IN IF inv.exc # "none" THEN Raise(c, inv.exc)
     ELSE SetAttr(SetAttr(SetAttr(c, "stdError", stdError), "zScores", zScores),
                  "p_val", p_val)

RECURSIVE logit_fill(_, _)
\* the first i rounds of: for i, name in enumerate(self.x.columns)
logit_fill(c, i) ==
  IF i = 0 THEN SetAttr(c, "results", EmptyDict)
  ELSE LET p == logit_fill(c, i - 1)
       IN SetAttr(p, "results",
                  DictSet(p.s.results, c.s.x.columns[i],
                          [coefficient |-> c.s.Beta_hat[i],
                           standard_error |-> c.s.stdError[i],
                           z_stat |-> c.s.zScores[i],
                           p_value |-> c.s.p_val[i]]))

\* the loop runs over the regressors and leaves the intercept out (a bug variant)
logit_results_regressors_only(c) == logit_fill(c, Len(c.s.x.columns) - 1)

logit_results(c) == logit_fill(c, Len(c.s.x.columns))

logistic_regression(c) ==
  Then(Then(logit_betas(Entered(c, "logit")), logit_inference), logit_results)

(***************************************************************************)
(* fit_model and summary.                                                  *)
(***************************************************************************)
\* both branches are plain ifs and the second test is on the wrong string, so an
\* ols model runs both estimators (a bug variant)
fit_model_both(c) ==
  LET c1 == IF c.s.regression_type = "ols" THEN ols_regression(c) ELSE c
  IN IF c1.exc = "none" /\ c.s.regression_type \in {"ols", "logit"}
     THEN logistic_regression(c1) ELSE c1

\* the intercept column is added again at every fit (a bug variant)
fit_model_reintercept(c) ==
  LET c1 == add_intercept(c, TRUE)
  IN IF c1.s.regression_type = "ols" THEN ols_regression(c1)
     ELSE IF c1.s.regression_type = "logit" THEN logistic_regression(c1)
     ELSE c1

fit_model(c) ==
  IF c.s.regression_type = "ols" THEN ols_regression(c)
  ELSE IF c.s.regression_type = "logit" THEN logistic_regression(c)
  ELSE c

\* pd.DataFrame({...}) of the five columns, printed
Render(c, labels, names) ==
  LET cols == [i \in 1..Len(names) |-> c.s[names[i]]]
  IN IF ~Has(c, Range(names)) THEN Raise(c, "AttributeError")
     ELSE IF ~SameLength(cols) THEN Raise(c, "ValueError")
     ELSE [c EXCEPT !.out = [columns |-> labels, data |-> cols]]

\* the statistic column is printed before the standard error (a bug variant)
summary_swapped(c) ==
  IF c.s.regression_type = "logit"
  THEN Render(c, <<"Variable name", "coefficient value", "z-statistic", "standard error",
                   "p-value">>,
              <<"x_list", "Beta_hat", "zScores", "stdError", "p_val">>)
  ELSE Render(c, <<"Variable name", "coefficient value", "t-statistic", "standard error",
                   "p-value">>,
              <<"x_list", "Beta_hat", "t_stat", "stdError", "p_val">>)

summary(c) ==
  IF c.s.regression_type = "logit"
  THEN Render(c, <<"Variable name", "coefficient value", "standard error", "z-statistic",
                   "p-value">>,
              <<"x_list", "Beta_hat", "stdError", "zScores", "p_val">>)
  ELSE IF c.s.regression_type = "ols"
  THEN Render(c, <<"Variable name", "coefficient value", "standard error", "t-statistic",
                   "p-value">>,
              <<"x_list", "Beta_hat", "stdError", "t_stat", "p_val">>)
  ELSE Raise(c, "UnboundLocalError")

\* __init__ ends by fitting the model (a bug variant)
init_autofit(a) ==
  LET c1 == SetAttr(Enter(NoSelf), "x", a.x)
      c2 == SetAttr(c1, "y", a.y)
      c3 == SetAttr(c2, "y2", a.y)
      c4 == SetAttr(c3, "num_obs", Len(a.x.data))
      c5 == SetAttr(c4, "num_vars", Len(a.x.columns))
      c6 == check_regression_type(c5, a.regression_type)
      labels(c) == SetAttr(SetAttr(c, "x_list", c.s.x.columns), "y_label", a.y.columns[1])
      intercept(c) == add_intercept(c, a.create_intercept)
      arrays(c) == SetAttr(SetAttr(c, "x1", c.s.x.data), "y1", c.s.y2.data)
  IN Then(Then(Then(Then(c6, labels), intercept), arrays), fit_model)

\* __init__(self, x, y, create_intercept, regression_type)
init(a) ==
  LET c1 == SetAttr(Enter(NoSelf), "x", a.x)
      c2 == SetAttr(c1, "y", a.y)
      c3 == SetAttr(c2, "y2", a.y)
      c4 == SetAttr(c3, "num_obs", Len(a.x.data))
      c5 == SetAttr(c4, "num_vars", Len(a.x.columns))
      c6 == check_regression_type(c5, a.regression_type)
      labels(c) == SetAttr(SetAttr(c, "x_list", c.s.x.columns), "y_label", a.y.columns[1])
      intercept(c) == add_intercept(c, a.create_intercept)
      arrays(c) == SetAttr(SetAttr(c, "x1", c.s.x.data), "y1", c.s.y2.data)
  IN Then(Then(Then(c6, labels), intercept), arrays)

(***************************************************************************)
(* The caller's inputs: small tables of whole numbers, named as in the     *)
(* notebook's test cell (x = data[['sex','age','educ']], y = data.white).  *)
(* educ is twice age, so the two are collinear; sex and age add up to the  *)
(* intercept on two rows.  Regressor names are distinct and none is        *)
(* "intercept".                                                            *)
(***************************************************************************)
ColumnValue(name, i) ==
  CASE name = "sex" -> (i % 2) * Scale
    [] name = "age" -> (i - 1) * Scale
    [] name = "educ" -> 2 * (i - 1) * Scale

Designs == {<<"sex">>, <<"age">>, <<"sex", "age">>, <<"age", "educ">>}

ResponseValue(kind, i) ==
  CASE kind = "ones" -> Scale
    [] kind = "flag" -> (i % 2) * Scale
    [] kind = "late" -> IF i = 1 THEN 0 ELSE Scale

Responses == {"ones", "flag", "late"}

\* data.loc[off : off+n-1, names]: the rows keep the labels they had in data
Table(names, n, off) ==
  Frame(names, [i \in 1..n |-> off + i - 1],
        [i \in 1..n |-> [j \in 1..Len(names) |-> ColumnValue(names[j], i)]])

Series(kind, n, off) ==
  Frame(<<"white">>, [i \in 1..n |-> off + i - 1],
        [i \in 1..n |-> <<ResponseValue(kind, i)>>])

Str(v) == [isstr |-> TRUE, v |-> v]

\* None stands for any value that is not a string
RegressionTypes ==
  {Str("ols"), Str("logit"), Str("OLS"), Str("probit"), [isstr |-> FALSE, v |-> "None"]}

Inputs ==
  {[x |-> Table(names, n, off), y |-> Series(kind, n, off),
    create_intercept |-> ci, regression_type |-> rt] :
      names \in Designs, n \in 2..MaxRows, off \in 0..MaxOffset, kind \in Responses,
      ci \in BOOLEAN, rt \in RegressionTypes}

NoArgs == [x |-> EmptyFrame, y |-> EmptyFrame, create_intercept |-> FALSE,
           regression_type |-> [isstr |-> FALSE, v |-> ""]]

(***************************************************************************)
(* The state machine: one object; a constructor call, then up to MaxCalls  *)
(* method calls.  An exception ends the call and leaves the object as the  *)
(* statements before it made it.                                           *)
(*   phase     "unbuilt", "constructed", or "failed" (__init__ raised)     *)
(*   raised    the exception of the last call, or "none"                   *)
(*   lastCall  the method last called; ran: the estimators it entered      *)
(*   writer    for each result attribute, the call (1, 2, ...) that last   *)
(*             assigned it, 0 if none did                                  *)
(*   out       the table summary last printed                              *)
(*   firstFit  the call that was the first fit_model to return, and what   *)
(*             it reported; call 0 while there was none                    *)
(*   trial     the coefficient vector the minimizer last handed to the     *)
(*             objective and the value the objective returned              *)
(***************************************************************************)
ResultAttrs ==
  {"Beta_hat_M", "Beta_hat", "df", "stdError", "t_stat", "zScores", "p_val", "results"}

\* what a fit of the object's own family reports: coefficients, standard errors,
\* statistics, p-values and the results mapping
Fitted(s) ==
  [Beta_hat |-> s.Beta_hat, stdError |-> s.stdError,
   stat |-> IF s.regression_type = "logit" THEN s.zScores ELSE s.t_stat,
   p_val |-> s.p_val, results |-> s.results]

NoTrial == [tried |-> FALSE, b |-> <<>>, value |-> 0]

Init ==
  /\ args = NoArgs
  /\ phase = "unbuilt"
  /\ self = NoSelf
  /\ raised = "none"
  /\ lastCall = "none"
  /\ ran = <<>>
  /\ ncalls = 0
  /\ writer = [a \in ResultAttrs |-> 0]
  /\ out = NoTable
  /\ firstFit = [call |-> 0, at |-> Fitted(NoSelf)]
  /\ trial = NoTrial

\* reg = RegressionModel(x, y, create_intercept, regression_type)
RegressionModel ==
  /\ phase = "unbuilt"
  /\ \E a \in Inputs :
       LET c == init(a)
       IN /\ args' = a
          /\ phase' = IF c.exc = "none" THEN "constructed" ELSE "failed"
          /\ self' = IF c.exc = "none" THEN c.s ELSE NoSelf
          /\ raised' = c.exc
          /\ writer' = [n \in ResultAttrs |-> IF n \in c.wrote THEN 1 ELSE 0]
          /\ ran' = c.ran
  /\ lastCall' = "__init__"
  /\ UNCHANGED <<ncalls, out, firstFit, trial>>

\* what every method call does to the state, c being the call's outcome
Returned(name, c) ==
  /\ self' = c.s
  /\ raised' = c.exc
  /\ lastCall' = name
  /\ ran' = c.ran
  /\ ncalls' = ncalls + 1
  /\ writer' = [n \in ResultAttrs |-> IF n \in c.wrote THEN ncalls + 1 ELSE writer[n]]
  /\ out' = IF name = "summary" /\ c.exc = "none" THEN c.out ELSE out
  /\ firstFit' = IF name = "fit_model" /\ c.exc = "none" /\ firstFit.call = 0
                 THEN [call |-> ncalls + 1, at |-> Fitted(c.s)]
                 ELSE firstFit
  /\ UNCHANGED <<args, phase, trial>>

CanCall == phase = "constructed" /\ ncalls < MaxCalls

FitModel == CanCall /\ Returned("fit_model", fit_model(Enter(self)))

OlsRegression == CanCall /\ Returned("ols_regression", ols_regression(Enter(self)))

LogisticRegression ==
  CanCall /\ Returned("logistic_regression", logistic_regression(Enter(self)))

Summary == CanCall /\ Returned("summary", summary(Enter(self)))

Next == RegressionModel \/ FitModel \/ OlsRegression \/ LogisticRegression \/ Summary

Spec == Init /\ [][Next]_vars

(***************************************************************************)
(* The objective on its own: minimize is an external routine that calls    *)
(* loglike(b, y, x) with coefficient vectors of its choosing (its line     *)
(* search may step far from the initial point), y and x being the object's *)
(* y2 and x.  TrialCoefficients are the initial 0.1 and a value either     *)
(* side of it large enough for exp(x @ b) to swamp the 1 added to it.      *)
(***************************************************************************)
TrialCoefficients == {0 - (GammaOne + Scale), GridStep, GammaOne + Scale}

TrialPoints(num_vars) == [1..num_vars -> TrialCoefficients]

\* one evaluation of the objective by the minimizer
Objective ==
  /\ phase = "constructed"
  /\ \E b \in TrialPoints(self.num_vars) :
       trial' = [tried |-> TRUE, b |-> b, value |-> loglike(b, self.y2, self.x)]
  /\ UNCHANGED <<args, phase, self, raised, lastCall, ran, ncalls, writer, out, firstFit>>

NextObjective == RegressionModel \/ Objective

SpecObjective == Init /\ [][NextObjective]_vars

(***************************************************************************)
(* Properties.                                                             *)
(***************************************************************************)
Built == phase = "constructed"

ValidType(rt) == rt.isstr /\ rt.v \in {"ols", "logit"}

FitCalls == {"fit_model", "ols_regression", "logistic_regression"}

\* the labels of the design matrix's columns
DesignColumns == self.x.columns

\* C1, as the spec words it: a constructor call with a regression_type other than the
\* strings 'ols' and 'logit' fails with an InvalidConfigurationError and builds no
\* object, and every object built has one of the two families.
C1_InvalidConfigurationError ==
  /\ (phase # "unbuilt" /\ ~ValidType(args.regression_type))
       => (phase = "failed" /\ raised = "InvalidConfigurationError" /\ self = NoSelf)
  /\ Built => self.regression_type \in {"ols", "logit"}

\* C1, amended: the same, the exception being the RuntimeError the code raises: a
\* constructor call with a regression_type other than the strings 'ols' and 'logit'
\* raises RuntimeError and builds no object (no family is defaulted), and every
\* object built has the family it was given.
C1_BadTypeRaisesRuntimeError ==
  /\ (phase # "unbuilt" /\ ~ValidType(args.regression_type))
       => (phase = "failed" /\ raised = "RuntimeError" /\ self = NoSelf)
  /\ Built => (/\ ValidType(args.regression_type)
               /\ self.regression_type = args.regression_type.v
               /\ raised \in {"none", "LinAlgError", "ValueError", "AttributeError"})

C1_Witness ==
  /\ phase = "failed"
  /\ args.regression_type = Str("probit")
  /\ raised = "RuntimeError"

\* C2: after construction the design matrix has the input's n rows; with
\* create_intercept it has the input's columns in their order and then a column
\* named 'intercept' that is 1 in every row; without, it is the input unchanged.
C2_DesignMatrix ==
  Built =>
    LET n == Len(args.x.data)
        k0 == Len(args.x.columns)
    IN IF args.create_intercept
       THEN /\ Len(self.x.data) = n
            /\ Len(self.x1) = n
            /\ self.x.columns = Append(args.x.columns, "intercept")
            /\ self.x_list = self.x.columns
            /\ self.num_vars = k0 + 1
            /\ \A i \in 1..Len(self.x.data) :
                 /\ self.x.data[i] = Append(args.x.data[i], Scale)
                 /\ self.x1[i] = self.x.data[i]
       ELSE /\ self.x = args.x
            /\ self.x1 = args.x.data
            /\ self.x_list = args.x.columns
            /\ self.num_vars = k0

\* C3: after a fit_model that returned, the results mapping has one key per
\* design-matrix column, in column order ('intercept' among them iff
\* create_intercept), and every value has exactly the fields coefficient,
\* standard_error, p_value and t_stat (ols) or z_stat (logit).
C3_ResultsShape ==
  (Built /\ lastCall = "fit_model" /\ raised = "none") =>
    /\ "results" \in self.attrs
    /\ self.results.keys = DesignColumns
    /\ Len(self.results.keys) = NCols(self.x1)
    /\ ("intercept" \in Range(self.results.keys)) <=> args.create_intercept
    /\ \A i \in 1..Len(self.results.val) :
         DOMAIN self.results.val[i] =
           {"coefficient", "standard_error", "p_value",
            IF self.regression_type = "ols" THEN "t_stat" ELSE "z_stat"}

C3_Witness ==
  /\ Built /\ lastCall = "fit_model" /\ raised = "none"
  /\ self.regression_type = "logit"
  /\ self.results.keys = <<"sex", "age", "intercept">>

\* C4: after an estimator returned (through fit_model or called directly), the
\* record under the i-th variable name holds entry i of the coefficient vector,
\* of the standard errors, of the statistics and of the p-values.
C4_Aligned ==
  (Built /\ lastCall \in FitCalls /\ raised = "none") =>
    \A i \in 1..Len(self.x_list) :
      LET rec == DictGet(self.results, self.x_list[i])
      IN /\ rec.coefficient = self.Beta_hat[i]
         /\ rec.standard_error = self.stdError[i]
         /\ rec.p_value = self.p_val[i]
         /\ IF ran = <<"ols">> THEN rec.t_stat = self.t_stat[i]
                               ELSE rec.z_stat = self.zScores[i]

C4_Witness ==
  /\ Built /\ lastCall = "fit_model" /\ raised = "none"
  /\ self.regression_type = "ols"
  /\ Len(self.x_list) = 3
  /\ self.Beta_hat[1] # self.Beta_hat[2]
  /\ DictGet(self.results, "age").coefficient = self.Beta_hat[2]

\* C5: a fit_model call enters exactly one estimator, the one of the family the
\* object was constructed with.
C5_Dispatch ==
  (Built /\ lastCall = "fit_model") => ran = <<args.regression_type.v>>

C5_Witness ==
  /\ Built /\ lastCall = "fit_model"
  /\ args.regression_type = Str("logit")
  /\ ran = <<"logit">>
  /\ "zScores" \in self.attrs

\* C6: a constructed object on which no method was called yet holds no result
\* attribute, and a result attribute is assigned only in a step that is a call of
\* fit_model or of an estimator.
C6_FitIsExplicit ==
  /\ []((Built /\ ncalls = 0) => (self.attrs \cap ResultAttrs = {} /\ ran = <<>>))
  /\ [][(\E n \in ResultAttrs : writer'[n] # writer[n]) => lastCall' \in FitCalls]_vars

C6_Witness ==
  /\ Built /\ ncalls = 1 /\ lastCall = "summary"
  /\ raised = "AttributeError"
  /\ self.attrs \cap ResultAttrs = {}

\* the attributes summary prints besides the names
Rendered ==
  {"Beta_hat", "stdError", "p_val",
   IF self.regression_type = "logit" THEN "zScores" ELSE "t_stat"}

\* the most recent call that assigned a result attribute
LastWrite == CHOOSE m \in {writer[n] : n \in ResultAttrs} : \A n \in ResultAttrs : writer[n] <= m

\* C7: whenever summary prints, after any sequence of fit_model, ols_regression and
\* logistic_regression calls, every value column it prints was assigned by the most
\* recent fit: no column is left from an earlier one.
C7_SummaryReflectsLastFit ==
  (Built /\ lastCall = "summary" /\ raised = "none") =>
    \A n \in Rendered : writer[n] = LastWrite

StatisticHeader == IF self.regression_type = "ols" THEN "t-statistic" ELSE "z-statistic"

C9_RefitSame ==
  (Built /\ lastCall = "fit_model") =>
    /\ raised = "none" => (firstFit.call >= 1 /\ Fitted(self) = firstFit.at)
    /\ firstFit.call >= 1 => raised = "none"

C9_Witness ==
  /\ Built /\ lastCall = "fit_model" /\ raised = "none"
  /\ self.regression_type = "logit"
  /\ firstFit.call = 1 /\ ncalls = 3
  /\ writer["t_stat"] = 2
  /\ writer["Beta_hat"] = 3

\* x'x of the design matrix, and whether it is singular
Gram == MatMul(Transpose(self.x1), self.x1)

SingularGram == ~AnyNonFinite(Gram) /\ Det(Whole(Gram)) = 0

\* the result attributes the last call assigned
Assigned == {n \in ResultAttrs : writer[n] = ncalls}

\* C10, as the spec words it: on a singular x'x, fit_model fails with a
\* SingularMatrixError in both families and no results mapping is produced.
C10_SingularMatrixError ==
  (Built /\ lastCall = "fit_model" /\ SingularGram) =>
    (raised = "SingularMatrixError" /\ "results" \notin self.attrs)

\* C10, amended: on a singular x'x, fit_model raises numpy's LinAlgError in both
\* families, for ols in BetaHat before any attribute is assigned, for logit at the
\* covariance step when Beta_hat alone has been assigned; the object gets no
\* standard errors and no results mapping.
C10_SingularRaisesLinAlgError ==
  (Built /\ lastCall = "fit_model" /\ SingularGram) =>
    /\ raised = "LinAlgError"
    /\ "results" \notin self.attrs
    /\ "stdError" \notin self.attrs
    /\ Assigned = (IF self.regression_type = "ols" THEN {} ELSE {"Beta_hat"})

C10_Witness ==
  /\ Built /\ lastCall = "fit_model" /\ SingularGram
  /\ raised = "LinAlgError"
  /\ self.regression_type = "logit"
  /\ self.x_list = <<"age", "educ", "intercept">>
  /\ "Beta_hat" \in self.attrs

\* n - k of the design matrix, the degrees of freedom chat2 assigns
DegreesOfFreedom == Len(self.x1) - NCols(self.x1)

\* C11: for the ols family, a fit_model call on a design matrix with n - k <= 0
\* fails (the spec names the error InsufficientDataError) instead of dividing the
\* residual sum of squares by df, and assigns no results mapping.
C11_NonPositiveDfFails ==
  (Built /\ lastCall = "fit_model" /\ self.regression_type = "ols"
     /\ DegreesOfFreedom <= 0 /\ ~AnyNonFinite(self.x1)) =>
    (raised # "none" /\ "results" \notin Assigned)

\* what minimize gives back for the object's data: the point (.x), which
\* logistic_regression keeps, and the success flag, which it never reads
OptimizeResult == minimize(InitialGuess(self.num_vars), self.y2, self.x)

\* the warnings a logistic_regression call hands to its caller: the method has no
\* warnings.warn and passes on none of the minimizer's
warnings_issued == {}

\* C12: after a fit_model call of the logit family, when the minimizer did not
\* report success and its point is finite, the fit returned that point together
\* with a ConvergenceWarning; when its point is not finite, the call raised
\* OptimizationFailedError.
C12_MinimizerResultChecked ==
  (Built /\ lastCall = "fit_model" /\ self.regression_type = "logit" /\ ~SingularGram) =>
    IF AnyNonFinite(<<OptimizeResult.x>>)
    THEN raised = "OptimizationFailedError"
    ELSE ~OptimizeResult.success =>
           (/\ self.Beta_hat = OptimizeResult.x
            /\ "ConvergenceWarning" \in warnings_issued)

\* C13: whatever coefficient vector the minimizer hands to the objective on a
\* design matrix of finite numbers, the objective returns a finite value, also
\* where the logistic probability of a row is exactly 0 or 1.  (The objective has
\* no raise; numpy's log of 0 is -inf with a RuntimeWarning.)
C13_ObjectiveFinite ==
  (trial.tried /\ ~AnyNonFinite(self.x1)) => IsFinite(trial.value)

\* the response holds one value only (all zeros or all ones)
SingleClass == \A i, j \in 1..Len(self.y1) : self.y1[i] = self.y1[j]

\* C14: an object whose response holds only one of the values 0/1 is either not
\* built or its fit_model fails; in particular no logit fit_model on it returns
\* normally, and none assigns a results mapping (built from a zero variance scale).
C14_SingleClassFails ==
  (Built /\ lastCall = "fit_model" /\ self.regression_type = "logit"
     /\ SingleClass /\ ~AnyNonFinite(self.x1)) =>
    (raised # "none" /\ "results" \notin Assigned)

\* C15: after an estimator returned, each reported p-value follows its family's
\* convention.  ols, df = n - k > 0: p_j is the upper-tail Student-t value at the
\* signed t_j, so it is above 0.5 exactly when t_j < 0, it and the value at -t_j
\* add up to 1, and a coefficient with a larger t has no larger p.  logit: p_j is
\* twice the standard-normal upper tail at |z_j|, the same for z_j and -z_j.
C15_PValueConvention ==
  (Built /\ lastCall \in FitCalls /\ raised = "none") =>
    IF ran = <<"ols">>
    THEN self.df > 0 =>
           \A j \in 1..Len(self.t_stat) :
             LET t == self.t_stat[j]
                 p == self.p_val[j]
             IN t # NaN =>
                  /\ self.df = DegreesOfFreedom
                  /\ p = t_sf(t, self.df)
                  /\ (p > Scale \div 2) <=> (t < 0)
                  /\ p + t_sf(FNeg(t), self.df) = Scale
                  /\ \A k \in 1..Len(self.t_stat) :
                       (self.t_stat[k] # NaN /\ self.t_stat[k] > t) => self.p_val[k] <= p
    ELSE \A j \in 1..Len(self.zScores) :
           LET z == self.zScores[j]
               p == self.p_val[j]
           IN z # NaN =>
                /\ p = FMul(norm_sf(FAbs(z)), 2 * Scale)
                /\ p = FMul(norm_sf(FAbs(FNeg(z))), 2 * Scale)
                /\ p <= Scale

C15_Witness ==
  /\ Built /\ lastCall = "fit_model" /\ raised = "none"
  /\ self.regression_type = "ols" /\ self.df > 0
  /\ \E j, k \in 1..Len(self.t_stat) :
       /\ IsFinite(self.t_stat[j]) /\ self.t_stat[j] < 0 /\ self.p_val[j] > Scale \div 2
       /\ IsFinite(self.t_stat[k]) /\ self.t_stat[k] > 0 /\ self.p_val[k] < Scale \div 2

\* what construction fixes: the design matrix (table and array), the response, the
\* variable names, the family, and the counts n and k
ConstructionAttrs ==
  {"x", "x1", "y", "y2", "y1", "x_list", "y_label", "regression_type", "num_obs", "num_vars"}

Constructed(s) == [a \in ConstructionAttrs |-> s[a]]

\* C16: whatever methods were called since, the fields construction fixed hold
\* what __init__ left in them, and a summary call changes no field of the object.
C16_FrameCondition ==
  /\ [](Built => /\ Constructed(self) = Constructed(init(args).s)
                 /\ ConstructionAttrs \subseteq self.attrs)
  /\ [][lastCall' = "summary" => self' = self]_vars

C16_Witness ==
  /\ Built /\ ncalls = 3 /\ lastCall = "summary" /\ raised = "none"
  /\ args.create_intercept
  /\ writer["results"] = 2
  /\ self.x_list = <<"sex", "age", "intercept">>
  /\ Constructed(self) = Constructed(init(args).s)

\* the result fields a caller reads, each with whether it is set
ReportedAttrs == {"Beta_hat", "stdError", "t_stat", "zScores", "p_val", "results"}

Reported(s) == [a \in ReportedAttrs |-> [set |-> a \in s.attrs, value |-> s[a]]]

\* C17: a fit_model call that raises leaves every result field as it was before
\* the call: coefficients, standard errors, statistics, p-values and the results
\* mapping hold their earlier values, or are all still absent.
C17_FailedFitLeavesResults ==
  [][(lastCall' = "fit_model" /\ ncalls' = ncalls + 1 /\ raised' # "none")
       => Reported(self') = Reported(self)]_vars

====
